---- MODULE Spec2Model ----
(***************************************************************************)
(* Model of src/src/index.ts: the ImageDownloaderServer of                 *)
(* mcp-image-downloader.  The state is the set of tools/call requests the  *)
(* server has received, the position of each request's async handler, the  *)
(* responses sent, and the file system the handlers act on.  A handler is  *)
(* an async function: it runs uninterrupted up to its next await, so each  *)
(* action below is one such run (the completion of the awaited call        *)
(* followed by the synchronous code up to the next await or the return).   *)
(***************************************************************************)
EXTENDS Integers, Sequences, FiniteSets, TLC

\* Number of tools/call requests the host sends in one run of the model.
MaxReqs == 2

VARIABLES
    nreq,         \* number of requests received so far
    req,          \* req[r]: the request params (name, arguments) of request r
    pc,           \* pc[r]: where request r's handler is suspended
    resp,         \* resp[r]: the responses sent for request r, in order
    effects,      \* effects[r]: the collaborator calls request r has made, in order
    transformer,  \* transformer[r]: the sharp pipeline request r has configured
    data,         \* data[r]: response.data of request r's GET
    thrown,       \* thrown[r]: the call whose exception request r's catch block caught
    dirs,         \* the directories that exist
    files         \* files[p]: the content of the file at path p

vars == <<nreq, req, pc, resp, effects, transformer, data, thrown, dirs, files>>

ReqIds == 1..MaxReqs

(***************************************************************************)
(* JavaScript values of an argument bag.  A string is a sequence of path   *)
(* components (the empty string is the empty sequence), so that            *)
(* path.dirname is computed and not assumed.                               *)
(***************************************************************************)
Undefined == [t |-> "undefined", s |-> <<>>, n |-> 0]
Null      == [t |-> "null",      s |-> <<>>, n |-> 0]
Str(s)    == [t |-> "string",    s |-> s,    n |-> 0]
Num(n)    == [t |-> "number",    s |-> <<>>, n |-> n]

\* typeof v
TypeOf(v) == IF v.t = "null" THEN "object" ELSE v.t

\* ToBoolean(v) for the values an optional numeric field can hold
Truthy(v) ==
    CASE v.t = "undefined" -> FALSE
      [] v.t = "null"      -> FALSE
      [] v.t = "number"    -> v.n # 0
      [] v.t = "string"    -> v.s # <<>>
      [] OTHER             -> TRUE

\* request.params.arguments: a primitive, or an object with these properties
\* (a property that is absent reads as undefined)
Prim(k) ==
    [t |-> k, url |-> Undefined, outputPath |-> Undefined, inputPath |-> Undefined,
     width |-> Undefined, height |-> Undefined, quality |-> Undefined]

Obj(u, o, i, w, h, q) ==
    [t |-> "object", url |-> u, outputPath |-> o, inputPath |-> i,
     width |-> w, height |-> h, quality |-> q]

\* !args || typeof args !== 'object'
NotAnObject(args) == args.t \in {"undefined", "null"} \/ args.t # "object"
\* isDownloadImageArgs without its test of outputPath
isDownloadImageArgs_urlOnly(args) ==
    IF NotAnObject(args) THEN FALSE
    ELSE TypeOf(args.url) = "string"

isDownloadImageArgs(args) ==
    IF NotAnObject(args) THEN FALSE
    ELSE /\ TypeOf(args.url) = "string"
         /\ TypeOf(args.outputPath) = "string"
\* isOptimizeImageArgs without its test of quality
isOptimizeImageArgs_qualityUnchecked(args) ==
    IF NotAnObject(args) THEN FALSE
    ELSE /\ TypeOf(args.inputPath) = "string"
         /\ TypeOf(args.outputPath) = "string"
         /\ (args.width = Undefined \/ TypeOf(args.width) = "number")
         /\ (args.height = Undefined \/ TypeOf(args.height) = "number")

isOptimizeImageArgs(args) ==
    IF NotAnObject(args) THEN FALSE
    ELSE /\ TypeOf(args.inputPath) = "string"
         /\ TypeOf(args.outputPath) = "string"
         /\ (args.width = Undefined \/ TypeOf(args.width) = "number")
         /\ (args.height = Undefined \/ TypeOf(args.height) = "number")
         /\ (args.quality = Undefined \/ TypeOf(args.quality) = "number")

\* path.dirname(p)
Dirname(p) == IF Len(p) <= 1 THEN <<".">> ELSE SubSeq(p, 1, Len(p) - 1)


(***************************************************************************)
(* The requests the host may send.                                         *)
(***************************************************************************)
URL == <<"http://x/a.png">>
OUT == <<"out", "a.png">>
INP == <<"in.jpg">>

ToolNames == {"download_image", "optimize_image", "delete_image"}

Primitives == {Prim("undefined"), Prim("null"), Prim("string")}

\* what a required string property may hold: absent, a non-string, "", a path
StringProps(p) == {Undefined, Num(7), Str(<<>>), Str(p)}

\* what an optional numeric property may hold: absent, a non-number, numbers
\* (0, a number inside 1..100 and, for quality, a number outside it)
NumberProps == {Undefined, Str(<<"100">>), Num(0), Num(50)}
QualityProps == {Undefined, Null, Num(0), Num(50), Num(150)}

\* one required property at a time absent or of the wrong type; every pair of
\* empty and non-empty strings
DownloadBags ==
    Primitives \cup
    { Obj(u, Str(OUT), Undefined, Undefined, Undefined, Undefined) :
        u \in StringProps(URL) } \cup
    { Obj(Str(URL), o, Undefined, Undefined, Undefined, Undefined) :
        o \in StringProps(OUT) } \cup
    { Obj(Str(<<>>), Str(<<>>), Undefined, Undefined, Undefined, Undefined) }

\* every width with every height; every quality; one property at a time
\* absent or of the wrong type
OptimizeBags ==
    Primitives \cup
    { Obj(Undefined, Str(OUT), Str(INP), w, h, Undefined) :
        w \in NumberProps \ {Str(<<"100">>)}, h \in NumberProps \ {Str(<<"100">>)} } \cup
    { Obj(Undefined, Str(OUT), Str(INP), Undefined, Undefined, q) :
        q \in QualityProps } \cup
    { Obj(Undefined, Str(OUT), Str(INP), Num(50), Num(50), Num(50)),
      Obj(Undefined, Str(OUT), Str(INP), Str(<<"100">>), Undefined, Undefined),
      Obj(Undefined, Str(OUT), Str(INP), Undefined, Str(<<"100">>), Undefined),
      Obj(Undefined, Undefined, Str(INP), Undefined, Undefined, Undefined),
      Obj(Undefined, Str(OUT), Num(7), Undefined, Undefined, Undefined) }

Bags(name) ==
    CASE name = "download_image" -> DownloadBags
      [] name = "optimize_image" -> OptimizeBags
      [] OTHER -> {Prim("undefined"),
                   Obj(Str(URL), Str(OUT), Undefined, Undefined, Undefined, Undefined)}

(***************************************************************************)
(* Responses.  A protocol-level error is a thrown McpError; a ToolResult   *)
(* is the value a handler returns.  text is the message: a fixed prefix    *)
(* followed by an interpolated value.                                      *)
(***************************************************************************)
McpError(code, prefix, arg) ==
    [kind |-> "McpError", code |-> code, isError |-> FALSE, prefix |-> prefix, arg |-> arg]

ToolResult(isError, prefix, arg) ==
    [kind |-> "ToolResult", code |-> "", isError |-> isError, prefix |-> prefix, arg |-> arg]

NoRequest == [name |-> "", arguments |-> Prim("undefined")]

NoTransformer ==
    [input |-> <<>>, resize |-> FALSE, width |-> Undefined, height |-> Undefined,
     fit |-> "", withoutEnlargement |-> FALSE, jpeg |-> Undefined, webp |-> Undefined]

NoFile == [kind |-> "ENOENT", of |-> <<>>]

Paths == {<<>>, OUT}

Init ==
    /\ nreq = 0
    /\ req = [r \in ReqIds |-> NoRequest]
    /\ pc = [r \in ReqIds |-> "idle"]
    /\ resp = [r \in ReqIds |-> <<>>]
    /\ effects = [r \in ReqIds |-> <<>>]
    /\ transformer = [r \in ReqIds |-> NoTransformer]
    /\ data = [r \in ReqIds |-> NoFile]
    /\ thrown = [r \in ReqIds |-> "none"]
    /\ dirs = {<<".">>}
    /\ files = [p \in Paths |-> NoFile]

(***************************************************************************)
(* The CallToolRequestSchema handler: the switch on request.params.name.   *)
(* Route is the branch taken; a thrown McpError rejects the handler's      *)
(* promise, which the protocol layer answers with an error response.       *)
(***************************************************************************)
\* the switch with the shape check made before the tool name is looked at
Route_validatesFirst(name, args) ==
    IF ~isDownloadImageArgs(args) /\ ~isOptimizeImageArgs(args) THEN "InvalidParams"
    ELSE CASE name = "download_image" -> "handleDownloadImage"
           [] name = "optimize_image" -> "handleOptimizeImage"
           [] OTHER -> "MethodNotFound"

Route(name, args) ==
    CASE name = "download_image" ->
            IF ~isDownloadImageArgs(args) THEN "InvalidParams" ELSE "handleDownloadImage"
      [] name = "optimize_image" ->
            IF ~isOptimizeImageArgs(args) THEN "InvalidParams" ELSE "handleOptimizeImage"
      [] OTHER -> "MethodNotFound"

CallTool(name, args) ==
    /\ nreq < MaxReqs
    /\ LET r == nreq + 1
           route == Route(name, args)
       IN  /\ nreq' = r
           /\ req' = [req EXCEPT ![r] = [name |-> name, arguments |-> args]]
           /\ CASE route = "InvalidParams" ->
                    /\ resp' = [resp EXCEPT ![r] = Append(@,
                          McpError("InvalidParams", "Invalid arguments for ", <<name>>))]
                    /\ pc' = [pc EXCEPT ![r] = "done"]
                [] route = "MethodNotFound" ->
                    /\ resp' = [resp EXCEPT ![r] = Append(@,
                          McpError("MethodNotFound", "Unknown tool: ", <<name>>))]
                    /\ pc' = [pc EXCEPT ![r] = "done"]
                [] route = "handleDownloadImage" ->
                    /\ pc' = [pc EXCEPT ![r] = "dl_ensureDir"]
                    /\ UNCHANGED resp
                [] route = "handleOptimizeImage" ->
                    /\ pc' = [pc EXCEPT ![r] = "op_ensureDir"]
                    /\ UNCHANGED resp
    /\ UNCHANGED <<effects, transformer, data, thrown, dirs, files>>

(***************************************************************************)
(* handleDownloadImage                                                     *)
(***************************************************************************)
\* a catch block that rethrows the exception as a protocol-level error
DownloadCatch_rethrows(r, step) ==
    /\ thrown' = [thrown EXCEPT ![r] = step]
    /\ resp' = [resp EXCEPT ![r] = Append(@,
           McpError("InternalError", "Failed to download image: ", <<step>>))]
    /\ pc' = [pc EXCEPT ![r] = "done"]

\* the catch block: every exception becomes an isError ToolResult
DownloadCatch(r, step) ==
    /\ thrown' = [thrown EXCEPT ![r] = step]
    /\ resp' = [resp EXCEPT ![r] = Append(@,
           ToolResult(TRUE, "Failed to download image: ", <<step>>))]
    /\ pc' = [pc EXCEPT ![r] = "done"]

\* response.data of a GET of url
Body(url) == [kind |-> "bytes", of |-> url]
\* ensureDir resolving without having created the directory
DlEnsureDirOk_noMkdir(r) ==
    /\ pc[r] = "dl_ensureDir"
    /\ effects' = [effects EXCEPT ![r] = Append(@, "ensureDir")]
    /\ pc' = [pc EXCEPT ![r] = "dl_get"]
    /\ UNCHANGED <<nreq, req, resp, transformer, data, thrown, dirs, files>>

DlEnsureDirOk(r) ==
    /\ pc[r] = "dl_ensureDir"
    /\ dirs' = dirs \cup {Dirname(req[r].arguments.outputPath.s)}
    /\ effects' = [effects EXCEPT ![r] = Append(@, "ensureDir")]
    /\ pc' = [pc EXCEPT ![r] = "dl_get"]
    /\ UNCHANGED <<nreq, req, resp, transformer, data, thrown, files>>

DlEnsureDirFail(r) ==
    /\ pc[r] = "dl_ensureDir"
    /\ effects' = [effects EXCEPT ![r] = Append(@, "ensureDir")]
    /\ DownloadCatch(r, "ensureDir")
    /\ UNCHANGED <<nreq, req, transformer, data, dirs, files>>

DlGetOk(r) ==
    /\ pc[r] = "dl_get"
    /\ data' = [data EXCEPT ![r] = Body(req[r].arguments.url.s)]
    /\ effects' = [effects EXCEPT ![r] = Append(@, "GET")]
    /\ pc' = [pc EXCEPT ![r] = "dl_write"]
    /\ UNCHANGED <<nreq, req, thrown, resp, transformer, dirs, files>>
\* a failed GET whose partial payload is written to outputPath all the same
DlGetFail_writesPartial(r) ==
    /\ pc[r] = "dl_get"
    /\ effects' = [effects EXCEPT ![r] = Append(@, "GET")]
    /\ files' = [files EXCEPT ![req[r].arguments.outputPath.s] =
                    [kind |-> "bytes", of |-> <<"partial">>]]
    /\ DownloadCatch(r, "GET")
    /\ UNCHANGED <<nreq, req, transformer, data, dirs>>

DlGetFail(r) ==
    /\ pc[r] = "dl_get"
    /\ effects' = [effects EXCEPT ![r] = Append(@, "GET")]
    /\ DownloadCatch(r, "GET")
    /\ UNCHANGED <<nreq, req, transformer, data, dirs, files>>

DlWriteOk(r) ==
    /\ pc[r] = "dl_write"
    /\ files' = [files EXCEPT ![req[r].arguments.outputPath.s] = data[r]]
    /\ effects' = [effects EXCEPT ![r] = Append(@, "writeFile")]
    /\ resp' = [resp EXCEPT ![r] = Append(@,
           ToolResult(FALSE, "Successfully downloaded image to ",
                      req[r].arguments.outputPath.s))]
    /\ pc' = [pc EXCEPT ![r] = "done"]
    /\ UNCHANGED <<nreq, req, transformer, data, thrown, dirs>>
\* a failed write that is attempted again
DlWriteFail_retries(r) ==
    /\ pc[r] = "dl_write"
    /\ effects' = [effects EXCEPT ![r] = Append(@, "writeFile")]
    /\ UNCHANGED <<nreq, req, pc, resp, transformer, data, thrown, dirs, files>>

DlWriteFail(r) ==
    /\ pc[r] = "dl_write"
    /\ effects' = [effects EXCEPT ![r] = Append(@, "writeFile")]
    /\ DownloadCatch(r, "writeFile")
    /\ UNCHANGED <<nreq, req, transformer, data, dirs, files>>

(***************************************************************************)
(* handleOptimizeImage                                                     *)
(***************************************************************************)
\* a catch block that logs the exception and returns nothing
OptimizeCatch_swallows(r, step) ==
    /\ thrown' = [thrown EXCEPT ![r] = step]
    /\ pc' = [pc EXCEPT ![r] = "done"]
    /\ UNCHANGED resp

OptimizeCatch(r, step) ==
    /\ thrown' = [thrown EXCEPT ![r] = step]
    /\ resp' = [resp EXCEPT ![r] = Append(@,
           ToolResult(TRUE, "Failed to optimize image: ", <<step>>))]
    /\ pc' = [pc EXCEPT ![r] = "done"]

\* the pipeline built between the two awaits: sharp(inputPath), then resize
\* and jpeg/webp under their guards
ResizeGuard(args) == Truthy(args.width) \/ Truthy(args.height)

QualityGuard(args) == Truthy(args.quality)

Pipeline(args) ==
    [input |-> args.inputPath.s,
     resize |-> ResizeGuard(args),
     width |-> IF ResizeGuard(args) THEN args.width ELSE Undefined,
     height |-> IF ResizeGuard(args) THEN args.height ELSE Undefined,
     fit |-> IF ResizeGuard(args) THEN "inside" ELSE "",
     withoutEnlargement |-> ResizeGuard(args),
     jpeg |-> IF QualityGuard(args) THEN args.quality ELSE Undefined,
     webp |-> IF QualityGuard(args) THEN args.quality ELSE Undefined]

\* what toFile writes
Encoded(t) == [kind |-> "image", of |-> t.input]

OpEnsureDirOk(r) ==
    /\ pc[r] = "op_ensureDir"
    /\ dirs' = dirs \cup {Dirname(req[r].arguments.outputPath.s)}
    /\ effects' = [effects EXCEPT ![r] = @ \o <<"ensureDir", "sharp">>]
    /\ transformer' = [transformer EXCEPT ![r] = Pipeline(req[r].arguments)]
    /\ pc' = [pc EXCEPT ![r] = "op_toFile"]
    /\ UNCHANGED <<nreq, req, thrown, resp, data, files>>

\* ensureDir succeeds and a pipeline call (sharp, resize, jpeg, webp) throws
OpPipelineThrows(r) ==
    /\ pc[r] = "op_ensureDir"
    /\ dirs' = dirs \cup {Dirname(req[r].arguments.outputPath.s)}
    /\ effects' = [effects EXCEPT ![r] = @ \o <<"ensureDir", "sharp">>]
    /\ transformer' = [transformer EXCEPT ![r] = Pipeline(req[r].arguments)]
    /\ OptimizeCatch(r, "sharp")
    /\ UNCHANGED <<nreq, req, data, files>>

OpEnsureDirFail(r) ==
    /\ pc[r] = "op_ensureDir"
    /\ effects' = [effects EXCEPT ![r] = Append(@, "ensureDir")]
    /\ OptimizeCatch(r, "ensureDir")
    /\ UNCHANGED <<nreq, req, transformer, data, dirs, files>>

OpToFileOk(r) ==
    /\ pc[r] = "op_toFile"
    /\ files' = [files EXCEPT ![req[r].arguments.outputPath.s] = Encoded(transformer[r])]
    /\ effects' = [effects EXCEPT ![r] = Append(@, "toFile")]
    /\ resp' = [resp EXCEPT ![r] = Append(@,
           ToolResult(FALSE, "Successfully optimized image to ",
                      req[r].arguments.outputPath.s))]
    /\ pc' = [pc EXCEPT ![r] = "done"]
    /\ UNCHANGED <<nreq, req, transformer, data, thrown, dirs>>

OpToFileFail(r) ==
    /\ pc[r] = "op_toFile"
    /\ effects' = [effects EXCEPT ![r] = Append(@, "toFile")]
    /\ OptimizeCatch(r, "toFile")
    /\ UNCHANGED <<nreq, req, transformer, data, dirs, files>>

\* one resumption of request r's handler
Step(r) ==
    \/ DlEnsureDirOk(r)
    \/ DlEnsureDirFail(r)
    \/ DlGetOk(r)
    \/ DlGetFail(r)
    \/ DlWriteOk(r)
    \/ DlWriteFail(r)
    \/ OpEnsureDirOk(r)
    \/ OpPipelineThrows(r)
    \/ OpEnsureDirFail(r)
    \/ OpToFileOk(r)
    \/ OpToFileFail(r)

Next ==
    \/ \E name \in ToolNames : \E args \in Bags(name) : CallTool(name, args)
    \/ \E r \in ReqIds : Step(r)

Spec == Init /\ [][Next]_vars

\* The fair specification draws the optional numbers of optimize_image from
\* fewer values: whether a handler returns does not depend on them.
FairBags(name) ==
    IF name = "optimize_image"
    THEN { b \in OptimizeBags :
             /\ b.width \in {Undefined, Str(<<"100">>)}
             /\ b.height = Undefined
             /\ b.quality \in {Undefined, Null, Num(50)} }
    ELSE Bags(name)

FairNext ==
    \/ \E name \in ToolNames : \E args \in FairBags(name) : CallTool(name, args)
    \/ \E r \in ReqIds : Step(r)

\* every awaited collaborator call eventually returns or fails
FairSpec == Init /\ [][FairNext]_vars /\ \A r \in ReqIds : WF_vars(Step(r))

(***************************************************************************)
(* Vocabulary of the properties.                                           *)
(***************************************************************************)
Received(r) == r <= nreq

Present(v) == v.t # "undefined"

\* the argument bag is not of the shape download_image asks for
FailsDownloadShape(a) ==
    \/ a.t # "object"
    \/ a.url.t # "string"
    \/ a.outputPath.t # "string"

\* the argument bag is not of the shape optimize_image asks for
FailsOptimizeShape(a) ==
    \/ a.t # "object"
    \/ a.inputPath.t # "string"
    \/ a.outputPath.t # "string"
    \/ (Present(a.width) /\ a.width.t # "number")
    \/ (Present(a.height) /\ a.height.t # "number")
    \/ (Present(a.quality) /\ a.quality.t # "number")

IsDownload(r) == Received(r) /\ req[r].name = "download_image"
IsOptimize(r) == Received(r) /\ req[r].name = "optimize_image"

ValidDownload(r) == IsDownload(r) /\ ~FailsDownloadShape(req[r].arguments)
ValidOptimize(r) == IsOptimize(r) /\ ~FailsOptimizeShape(req[r].arguments)

IsProtocolError(m) == m.kind = "McpError"
IsToolResult(m) == m.kind = "ToolResult"

ProtocolErrors(r) == {i \in 1..Len(resp[r]) : IsProtocolError(resp[r][i])}
ToolResults(r) == {i \in 1..Len(resp[r]) : IsToolResult(resp[r][i])}

\* request r's handler has run: it is suspended at an await, or it has called
\* a collaborator, or it has returned a ToolResult
InHandler(r) ==
    \/ pc[r] \in {"dl_ensureDir", "dl_get", "dl_write", "op_ensureDir", "op_toFile"}
    \/ effects[r] # <<>>
    \/ thrown[r] # "none"
    \/ ToolResults(r) # {}

InService(r) == pc[r] \in {"dl_ensureDir", "dl_get", "dl_write", "op_ensureDir", "op_toFile"}

IsPrefix(s, t) == Len(s) <= Len(t) /\ s = SubSeq(t, 1, Len(s))

Count(s, e) == Cardinality({i \in 1..Len(s) : s[i] = e})

DownloadOrder == <<"ensureDir", "GET", "writeFile">>
OptimizeOrder == <<"ensureDir", "sharp", "toFile">>

\* C1: a download_image or optimize_image call whose argument bag fails the
\* tool's shape check is answered by exactly a protocol-level InvalidParams
\* error, never a ToolResult, and none of its handler's side effects has
\* happened.
C1_InvalidArgsRejected ==
    \A r \in ReqIds :
        (\/ (IsDownload(r) /\ FailsDownloadShape(req[r].arguments))
         \/ (IsOptimize(r) /\ FailsOptimizeShape(req[r].arguments)))
        => /\ Len(resp[r]) = 1
           /\ IsProtocolError(resp[r][1])
           /\ resp[r][1].code = "InvalidParams"
           /\ ~InHandler(r)
           /\ transformer[r] = NoTransformer
           /\ data[r] = NoFile

C1_Witness ==
    \E r \in ReqIds :
        /\ IsOptimize(r)
        /\ req[r].arguments.t = "object"
        /\ req[r].arguments.inputPath.t = "string"
        /\ req[r].arguments.outputPath.t = "string"
        /\ req[r].arguments.quality.t = "null"
        /\ Len(resp[r]) = 1
        /\ resp[r][1].code = "InvalidParams"

\* C2: a call naming a tool other than download_image and optimize_image is
\* answered by exactly a protocol-level MethodNotFound error, whatever its
\* arguments, and no handler has run for it.
C2_UnknownToolRejected ==
    \A r \in ReqIds :
        (Received(r) /\ req[r].name \notin {"download_image", "optimize_image"})
        => /\ Len(resp[r]) = 1
           /\ IsProtocolError(resp[r][1])
           /\ resp[r][1].code = "MethodNotFound"
           /\ resp[r][1].arg = <<req[r].name>>
           /\ ~InHandler(r)

C2_Witness ==
    \E r, q \in ReqIds :
        /\ Received(r) /\ req[r].name = "delete_image"
        /\ req[r].arguments.t = "undefined"
        /\ resp[r][1].code = "MethodNotFound"
        /\ Received(q) /\ req[q].name = "delete_image"
        /\ ~FailsDownloadShape(req[q].arguments)
        /\ resp[q][1].code = "MethodNotFound"

\* C3: when a step of a validated request's handler fails, the response is a
\* ToolResult with isError = TRUE and no protocol-level error; a request
\* answered by a protocol-level error has run no handler step.
C3_FailuresAreToolResults ==
    \A r \in ReqIds :
        /\ (thrown[r] # "none" =>
                /\ ValidDownload(r) \/ ValidOptimize(r)
                /\ Len(resp[r]) = 1
                /\ IsToolResult(resp[r][1])
                /\ resp[r][1].isError
                /\ resp[r][1].arg = <<thrown[r]>>)
        /\ (ProtocolErrors(r) # {} => effects[r] = <<>> /\ thrown[r] = "none")
        /\ ((ValidDownload(r) \/ ValidOptimize(r)) => ProtocolErrors(r) = {})

C3_Witness ==
    /\ \E r \in ReqIds : ValidDownload(r) /\ thrown[r] = "writeFile" /\ resp[r][1].isError
    /\ \E r \in ReqIds : ValidOptimize(r) /\ thrown[r] = "sharp" /\ resp[r][1].isError

\* C4: a validated download_image request makes its calls in the order
\* ensureDir, GET, writeFile; outputPath is written only with the payload of
\* a GET that succeeded (a failed GET leaves the files as they were); and the
\* non-error ToolResult naming outputPath is returned only once the write is
\* done.
C4_DownloadOrder ==
    /\ \A r \in ReqIds :
        ValidDownload(r) =>
            /\ IsPrefix(effects[r], DownloadOrder)
            /\ (Count(effects[r], "GET") = 1 => thrown[r] # "ensureDir")
            /\ (Count(effects[r], "writeFile") = 1 =>
                    /\ thrown[r] \notin {"ensureDir", "GET"}
                    /\ data[r] = [kind |-> "bytes", of |-> req[r].arguments.url.s])
            /\ \A i \in ToolResults(r) :
                    ~resp[r][i].isError =>
                        /\ effects[r] = DownloadOrder
                        /\ thrown[r] = "none"
                        /\ resp[r][i].arg = req[r].arguments.outputPath.s
    /\ \A p \in Paths :
        files[p].kind = "bytes" =>
            \E r \in ReqIds :
                /\ ValidDownload(r)
                /\ req[r].arguments.outputPath.s = p
                /\ effects[r] = DownloadOrder
                /\ thrown[r] = "none"
                /\ files[p] = data[r]

C4_Witness ==
    \E r, q \in ReqIds :
        /\ ValidDownload(r) /\ ValidDownload(q)
        /\ req[r].arguments.outputPath = req[q].arguments.outputPath
        /\ effects[r] = DownloadOrder /\ thrown[r] = "none"
        /\ Len(resp[r]) = 1 /\ ~resp[r][1].isError
        /\ files[req[r].arguments.outputPath.s] = data[r]
        /\ thrown[q] = "GET"

\* C5 as stated: a download_image request that reaches the handler carries a
\* url and an outputPath that are both non-empty strings.
C5_NonEmptyStrings ==
    \A r \in ReqIds :
        (IsDownload(r) /\ InHandler(r)) =>
            /\ req[r].arguments.url.t = "string"
            /\ req[r].arguments.url.s # <<>>
            /\ req[r].arguments.outputPath.t = "string"
            /\ req[r].arguments.outputPath.s # <<>>

\* C5, amended: a download_image request that reaches the handler carries a
\* url and an outputPath that are both strings, possibly empty; a call whose
\* url and outputPath are strings, the empty string included, is not rejected
\* and reaches the handler.
C5_Strings ==
    \A r \in ReqIds :
        IsDownload(r) =>
            /\ InHandler(r) =>
                    /\ req[r].arguments.t = "object"
                    /\ req[r].arguments.url.t = "string"
                    /\ req[r].arguments.outputPath.t = "string"
            /\ (/\ req[r].arguments.t = "object"
                /\ req[r].arguments.url.t = "string"
                /\ req[r].arguments.outputPath.t = "string")
                    => InHandler(r) /\ ProtocolErrors(r) = {}

C5_Witness ==
    \E r \in ReqIds :
        /\ IsDownload(r)
        /\ req[r].arguments.url = Str(<<>>)
        /\ req[r].arguments.outputPath = Str(<<>>)
        /\ pc[r] = "dl_write"

\* C6 as stated: for a validated optimize_image request the resize (fit
\* inside, no enlargement) is part of the pipeline if and only if width or
\* height is present in the arguments, 0 included.
C6_ResizeIffPresent ==
    \A r \in ReqIds :
        (ValidOptimize(r) /\ Count(effects[r], "sharp") = 1) =>
            /\ transformer[r].resize <=>
                    (Present(req[r].arguments.width) \/ Present(req[r].arguments.height))
            /\ transformer[r].resize =>
                    /\ transformer[r].fit = "inside"
                    /\ transformer[r].withoutEnlargement
                    /\ transformer[r].width = req[r].arguments.width
                    /\ transformer[r].height = req[r].arguments.height

\* C7 as stated: for a validated optimize_image request the quality is given
\* to the JPEG and WebP encoders if and only if quality is present in the
\* arguments, 0 and values outside 1..100 included.
C7_QualityIffPresent ==
    \A r \in ReqIds :
        (ValidOptimize(r) /\ Count(effects[r], "sharp") = 1) =>
            /\ Present(req[r].arguments.quality) =>
                    /\ transformer[r].jpeg = req[r].arguments.quality
                    /\ transformer[r].webp = req[r].arguments.quality
            /\ ~Present(req[r].arguments.quality) =>
                    /\ transformer[r].jpeg = Undefined
                    /\ transformer[r].webp = Undefined

C10_NoRetry ==
    \A r \in ReqIds :
        /\ \A e \in {"ensureDir", "GET", "writeFile", "sharp", "toFile"} :
                Count(effects[r], e) <= 1
        /\ thrown[r] # "none" =>
                /\ pc[r] = "done"
                /\ effects[r] # <<>>
                /\ effects[r][Len(effects[r])] = thrown[r]
                /\ ~ENABLED Step(r)

C10_Witness ==
    /\ \E r \in ReqIds : ValidDownload(r) /\ thrown[r] = "GET" /\ effects[r] = <<"ensureDir", "GET">>
    /\ \E r \in ReqIds : ValidOptimize(r) /\ thrown[r] = "toFile" /\ effects[r] = OptimizeOrder

\* C9: every request ends with exactly one response, a protocol-level error
\* (InvalidParams or MethodNotFound), a non-error ToolResult or an isError
\* ToolResult, and its handler then runs no more; under FairSpec every
\* request received does get there.
C9_Answered(r) ==
    /\ Len(resp[r]) = 1
    /\ \/ IsProtocolError(resp[r][1]) /\ resp[r][1].code \in {"InvalidParams", "MethodNotFound"}
       \/ IsToolResult(resp[r][1])
    /\ pc[r] = "done"
    /\ ~ENABLED Step(r)

C9_ExactlyOneResponse ==
    /\ [](\A r \in ReqIds :
            /\ Len(resp[r]) <= 1
            /\ (Len(resp[r]) = 1 \/ pc[r] = "done") => C9_Answered(r))
    /\ \A r \in ReqIds : (Received(r) ~> C9_Answered(r))

C9_Witness ==
    \E r, q \in ReqIds :
        /\ C9_Answered(r) /\ IsToolResult(resp[r][1]) /\ resp[r][1].isError
        /\ C9_Answered(q) /\ IsToolResult(resp[q][1]) /\ ~resp[q][1].isError

====
